---- MODULE Spec2Model ----
(***************************************************************************)
(* entrails (bc0la/entrails): reconstruction of the operations a principal *)
(* performed from a CloudTrail archive in S3.                              *)
(*                                                                         *)
(* The model follows the latest revision of the program (the one with      *)
(* normalizeArn and getShardPrefixes).  Strings are sequences of           *)
(* one-character strings, so strings.Replace, strings.Index, slicing and   *)
(* Go's byte-wise string comparison are computed, not assumed.             *)
(***************************************************************************)
EXTENDS Integers, Sequences, FiniteSets, TLC

(***************************************************************************)
(* Bounds of the model.                                                    *)
(***************************************************************************)
\* number of chunks a raw identifier is assembled from (normalizer runs)
MaxChunks == 5

\* largest --threads value
MaxThreads == 2

\* records in the bucket, over all its objects (record-processing runs)
MaxRecords == 2

\* objects in the bucket (archive-layout runs)
MaxObjects == 3

\* keys S3 returns per page of a listing
PageSize == 2

\* entries of a map handed to sortedKeys or secretsList (sorting runs)
MaxKeys == 3

(***************************************************************************)
(* String literals of the program.                                         *)
(***************************************************************************)
StsPrefix == <<"a", "r", "n", ":", "a", "w", "s", ":", "s", "t", "s", ":", ":">>

IamPrefix == <<"a", "r", "n", ":", "a", "w", "s", ":", "i", "a", "m", ":", ":">>

AssumedRoleSeg == <<":", "a", "s", "s", "u", "m", "e", "d", "-", "r", "o", "l", "e", "/">>

RoleSeg == <<":", "r", "o", "l", "e", "/">>

Slash == <<"/">>

(***************************************************************************)
(* Go string primitives, on sequences of characters.                       *)
(***************************************************************************)
\* sub occurs in s at the 1-based position i
OccursAt(s, sub, i) ==
    /\ i >= 1
    /\ i + Len(sub) - 1 <= Len(s)
    /\ \A j \in 1..Len(sub) : s[i + j - 1] = sub[j]

\* strings.Index: 0-based index of the first occurrence of sub in s, or -1
Index(s, sub) ==
    LET hits == {i \in 1..(Len(s) - Len(sub) + 1) : OccursAt(s, sub, i)}
    IN  IF hits = {} THEN -1
        ELSE (CHOOSE i \in hits : \A j \in hits : i <= j) - 1

\* strings.Replace(s, old, new, 1): only the first occurrence is replaced
ReplaceFirst(s, old, new) ==
    LET i == Index(s, old)
    IN  IF i = -1 THEN s
        ELSE SubSeq(s, 1, i) \o new \o SubSeq(s, i + Len(old) + 1, Len(s))

\* strings.Contains
Contains(s, sub) == Index(s, sub) # -1

\* the first n elements of a sequence / the rest
Take(s, n) == SubSeq(s, 1, IF n < Len(s) THEN n ELSE Len(s))

Drop(s, n) == SubSeq(s, n + 1, Len(s))

\* strings.LastIndex
LastIndex(s, sub) ==
    LET hits == {i \in 1..(Len(s) - Len(sub) + 1) : OccursAt(s, sub, i)}
    IN  IF hits = {} THEN -1
        ELSE (CHOOSE i \in hits : \A j \in hits : i >= j) - 1

\* normalizeArn as it would be if the index of the "/" were taken before the
\* assumed-role segment is rewritten
normalizeArnStaleIndex(raw) ==
    LET arn1 == ReplaceFirst(raw, StsPrefix, IamPrefix)
        arn2 == ReplaceFirst(arn1, AssumedRoleSeg, RoleSeg)
        idx  == Index(arn1, Slash)
    IN  IF idx # -1 THEN Take(arn2, idx) ELSE arn2

\* normalizeArn as it would be if it cut at the last "/" (strings.LastIndex)
normalizeArnCutLast(raw) ==
    LET arn1 == ReplaceFirst(raw, StsPrefix, IamPrefix)
        arn2 == ReplaceFirst(arn1, AssumedRoleSeg, RoleSeg)
        idx  == LastIndex(arn2, Slash)
    IN  IF idx # -1 THEN SubSeq(arn2, 1, idx) ELSE arn2

(***************************************************************************)
(* normalizeArn: sts -> iam, assumed-role -> role, cut at the first "/".   *)
(***************************************************************************)
normalizeArn(raw) ==
    LET arn1 == ReplaceFirst(raw, StsPrefix, IamPrefix)
        arn2 == ReplaceFirst(arn1, AssumedRoleSeg, RoleSeg)
        idx  == Index(arn2, Slash)
    IN  IF idx # -1 THEN SubSeq(arn2, 1, idx) ELSE arn2

(***************************************************************************)
(* Go compares strings byte by byte.  CharOrder lists the characters the   *)
(* model uses in ASCII order.                                              *)
(***************************************************************************)
CharOrder ==
    <<"-", ".", "/", "0", "1", "2", "3", "4", "5", "6", "7", "8", "9", ":",
      "A", "B", "D", "G", "I", "L", "O", "R", "S", "T", "V", "Z",
      "a", "b", "c", "d", "e", "f", "g", "h", "i", "j", "l", "m", "n", "o",
      "p", "q", "r", "s", "t", "u", "v", "w", "x", "y", "z">>

Ord(c) == CHOOSE i \in 1..Len(CharOrder) : CharOrder[i] = c

\* the Go expression a < b on strings
LexLess(a, b) ==
    \E i \in 1..(Len(b)) :
        /\ \A j \in 1..(i - 1) : j <= Len(a) /\ a[j] = b[j]
        /\ \/ i = Len(a) + 1
           \/ i <= Len(a) /\ Ord(a[i]) < Ord(b[i])

\* sort.Strings as it would be if it sorted in descending order
RECURSIVE SortStringsDescending(_)
SortStringsDescending(S) ==
    IF S = {} THEN <<>>
    ELSE LET m == CHOOSE x \in S : \A y \in S : y = x \/ LexLess(y, x)
         IN  <<m>> \o SortStringsDescending(S \ {m})

\* sort.Strings applied to the elements of a set
RECURSIVE SortStrings(_)
SortStrings(S) ==
    IF S = {} THEN <<>>
    ELSE LET m == CHOOSE x \in S : \A y \in S : y = x \/ LexLess(x, y)
         IN  <<m>> \o SortStrings(S \ {m})

(***************************************************************************)
(* The principals, operations and timestamps of the audit records.         *)
(***************************************************************************)
Account == <<"1", "2">>

UserSeg == <<":", "u", "s", "e", "r", "/">>

RoleA == <<"R", "o", "l", "e", "A">>

RoleB == <<"R", "o", "l", "e", "B">>

Bob == <<"b", "o", "b">>

\* arn:aws:sts::12:assumed-role/RoleA/s1 and .../RoleA/s2
RoleASession1 == StsPrefix \o Account \o AssumedRoleSeg \o RoleA \o Slash \o <<"s", "1">>

RoleASession2 == StsPrefix \o Account \o AssumedRoleSeg \o RoleA \o Slash \o <<"s", "2">>

\* arn:aws:sts::12:assumed-role/RoleB/s1
RoleBSession1 == StsPrefix \o Account \o AssumedRoleSeg \o RoleB \o Slash \o <<"s", "1">>

\* arn:aws:iam::12:user/bob
BobArn == IamPrefix \o Account \o UserSeg \o Bob

Ec2Source == <<"e", "c", "2", ".", "a", "m", "a", "z", "o", "n", "a", "w", "s", ".", "c", "o", "m">>

SecretsSource ==
    <<"s", "e", "c", "r", "e", "t", "s", "m", "a", "n", "a", "g", "e", "r", ".",
      "a", "m", "a", "z", "o", "n", "a", "w", "s", ".", "c", "o", "m">>

SecretsManager == <<"s", "e", "c", "r", "e", "t", "s", "m", "a", "n", "a", "g", "e", "r">>

DescribeInstances ==
    <<"D", "e", "s", "c", "r", "i", "b", "e", "I", "n", "s", "t", "a", "n", "c", "e", "s">>

GetSecretValue == <<"G", "e", "t", "S", "e", "c", "r", "e", "t", "V", "a", "l", "u", "e">>

Dot == <<".">>

Colon == <<":">>

T1 == <<"1", "0", ":", "0", "0">>

T2 == <<"1", "0", ":", "3", "0">>

T3 == <<"1", "1", ":", "4", "5">>

ProdDb == <<"p", "r", "o", "d", "/", "d", "b">>

\* requestParameters["secretId"]: absent, a string, or a value of another type
NoSecretId == [kind |-> "absent", val |-> <<>>]

StringSecretId(s) == [kind |-> "string", val |-> s]

NumberSecretId == [kind |-> "number", val |-> <<>>]

(***************************************************************************)
(* The raw records an object may hold.  wellFormed = FALSE is an element   *)
(* of Records that json.Unmarshal rejects.                                 *)
(***************************************************************************)
RecordTable ==
    [ r1 |-> [wellFormed |-> TRUE, arn |-> RoleASession1, errorCode |-> FALSE,
              eventSource |-> Ec2Source, eventName |-> DescribeInstances,
              eventTime |-> T1, secretId |-> NoSecretId],
      r2 |-> [wellFormed |-> TRUE, arn |-> RoleASession2, errorCode |-> FALSE,
              eventSource |-> Ec2Source, eventName |-> DescribeInstances,
              eventTime |-> T2, secretId |-> NoSecretId],
      r3 |-> [wellFormed |-> TRUE, arn |-> RoleASession1, errorCode |-> TRUE,
              eventSource |-> Ec2Source, eventName |-> DescribeInstances,
              eventTime |-> T3, secretId |-> NoSecretId],
      r4 |-> [wellFormed |-> TRUE, arn |-> BobArn, errorCode |-> FALSE,
              eventSource |-> SecretsSource, eventName |-> GetSecretValue,
              eventTime |-> T1, secretId |-> StringSecretId(ProdDb)],
      r5 |-> [wellFormed |-> FALSE, arn |-> <<>>, errorCode |-> FALSE,
              eventSource |-> <<>>, eventName |-> <<>>,
              eventTime |-> <<>>, secretId |-> NoSecretId],
      r6 |-> [wellFormed |-> TRUE, arn |-> RoleASession1, errorCode |-> FALSE,
              eventSource |-> SecretsSource, eventName |-> GetSecretValue,
              eventTime |-> T2, secretId |-> NumberSecretId] ]

RecordIds == DOMAIN RecordTable

Rec(id) == RecordTable[id]

(***************************************************************************)
(* The S3 bucket: a function from object keys to object bodies.  A body    *)
(* carries what GetObject, gzip.NewReader and the JSON decoder make of it. *)
(***************************************************************************)
\* the --prefix flag ("L/" stands for a prefix such as "AWSLogs/")
Prefix == <<"L", "/">>

HasPrefix(k, p) == Len(p) <= Len(k) /\ SubSeq(k, 1, Len(p)) = p

\* the part of key k up to and including the first "/" after prefix p
CommonPrefixOf(k, p) ==
    LET rest == SubSeq(k, Len(p) + 1, Len(k))
    IN  p \o SubSeq(rest, 1, Index(rest, Slash) + 1)

\* ListObjectsV2 with Prefix p and Delimiter "/": the CommonPrefixes, in key order
CommonPrefixes(keys, p) ==
    SortStrings({CommonPrefixOf(k, p) :
                   k \in {x \in keys : /\ HasPrefix(x, p)
                                       /\ Contains(SubSeq(x, Len(p) + 1, Len(x)), Slash)}})

\* ListObjectsV2 with Prefix p and no delimiter: every key under p, in key order
KeysUnder(keys, p) == SortStrings({k \in keys : HasPrefix(k, p)})

(***************************************************************************)
(* The pure parts of process.                                              *)
(***************************************************************************)
\* strings.Split(s, ".")[0]
FirstSegment(s) ==
    LET i == Index(s, Dot) IN IF i = -1 THEN s ELSE SubSeq(s, 1, i)

\* action := strings.Split(ev.EventSource, ".")[0] + ":" + ev.EventName
OperationKey(ev) == FirstSegment(ev.eventSource) \o Colon \o ev.eventName

\* the operation keys of the sample records
Ec2Describe == <<"e", "c", "2">> \o Colon \o DescribeInstances

SecretsGet == SecretsManager \o Colon \o GetSecretValue

\* norm := normalizeArn(ev.UserIdentity.Arn), tabulated over the ARNs the
\* records carry
RecordNorm == [a \in {Rec(id).arn : id \in RecordIds} |-> normalizeArn(a)]

\* Skipped as it would be without the test of ev.ErrorCode
SkippedIdentityOnly(ev, ident) == RecordNorm[ev.arn] # ident

\* norm != identity || ev.ErrorCode != nil  (the record is skipped)
Skipped(ev, ident) == RecordNorm[ev.arn] # ident \/ ev.errorCode

\* Upsert as it would be if it kept the first timestamp seen for an operation
UpsertFirstOnly(ledger, action, t) ==
    IF action \notin DOMAIN ledger
    THEN [k \in DOMAIN ledger \cup {action} |-> IF k = action THEN t ELSE ledger[k]]
    ELSE ledger

\* Upsert as it would be if it stored every timestamp without comparing
UpsertOverwrite(ledger, action, t) ==
    [k \in DOMAIN ledger \cup {action} |-> IF k = action THEN t ELSE ledger[k]]

\* Upsert as it would be with the comparison turned round (ev.EventTime < prev)
UpsertKeepEarliest(ledger, action, t) ==
    IF action \notin DOMAIN ledger \/ LexLess(t, ledger[action])
    THEN [k \in DOMAIN ledger \cup {action} |-> IF k = action THEN t ELSE ledger[k]]
    ELSE ledger

\* if prev, ok := actions[action]; !ok || ev.EventTime > prev { actions[action] = ev.EventTime }
Upsert(ledger, action, t) ==
    IF action \notin DOMAIN ledger \/ LexLess(ledger[action], t)
    THEN [k \in DOMAIN ledger \cup {action} |-> IF k = action THEN t ELSE ledger[k]]
    ELSE ledger

\* strings.Contains(ev.EventSource, "secretsmanager") && ev.EventName == "GetSecretValue"
\* and requestParameters["secretId"] holds a string
IsSecretAccess(ev) ==
    /\ Contains(ev.eventSource, SecretsManager)
    /\ ev.eventName = GetSecretValue
    /\ ev.secretId.kind = "string"

EmptyLedger == [k \in {} |-> <<>>]

(***************************************************************************)
(* Inputs: the bucket, the flags, the caller identity.                     *)
(***************************************************************************)
\* the depth argument of getShardPrefixes(ctx, s3cli, bucket, prefix, 4)
Levels == 4

OkBody(recs) == [status |-> "ok", recs |-> recs]

\* GetObject fails / gzip.NewReader fails / the JSON decoder fails: the records
\* the object was written with are never seen
BrokenBodies ==
    {[status |-> s, recs |-> <<"r4">>] : s \in {"nofetch", "badgzip", "badjson"}}

RECURSIVE SeqsUpTo(_, _)
SeqsUpTo(S, n) ==
    IF n = 0 THEN {<<>>}
    ELSE LET shorter == SeqsUpTo(S, n - 1)
         IN  shorter \cup {Append(s, x) : s \in {y \in shorter : Len(y) = n - 1}, x \in S}

\* the records the objects of record-processing runs are made of
PoolRecords == {"r1", "r2", "r3", "r4", "r5"}

Bodies == BrokenBodies \cup {OkBody(recs) : recs \in SeqsUpTo(PoolRecords, MaxRecords)}

KeyXA == <<"L", "/", "x", "/", "a">>

KeyYB == <<"L", "/", "y", "/", "b">>

KeyA == <<"L", "/", "a">>

KeyB == <<"L", "/", "b">>

KeyYZC == <<"L", "/", "y", "/", "z", "/", "c">>

KeyWVD == <<"L", "/", "w", "/", "v", "/", "d">>

KeyDeepE == <<"L", "/", "p", "/", "1", "/", "2", "/", "3", "/", "4", "/", "e">>

KeyDeepF == <<"L", "/", "q", "/", "1", "/", "2", "/", "3", "/", "4", "/", "f">>

KeyUniverse == {KeyA, KeyXA, KeyYB, KeyYZC, KeyWVD, KeyDeepE, KeyDeepF}

\* the number of records a store holds
RecordCount(st) == Len(st[KeyA].recs) + Len(st[KeyB].recs)

\* record-processing runs: two objects under the base prefix, with any bodies
\* that hold up to MaxRecords records between them
RecordStores == {st \in [{KeyA, KeyB} -> Bodies] : RecordCount(st) <= MaxRecords}

\* archive-layout runs: any layout of up to MaxObjects objects, each holding a
\* secret retrieval with a string secretId and one with a number
LayoutStores ==
    UNION {[layout -> {OkBody(<<"r4", "r6">>)}] :
             layout \in {l \in SUBSET KeyUniverse : Cardinality(l) <= MaxObjects}}

\* the --identity flag: not given, or the full ARN of a user
IdentityFlags == {<<>>, BobArn}

\* what sts:GetCallerIdentity may answer
CallerArns == {RoleBSession1, BobArn}

\* the --threads flag
ThreadChoices == {-1} \cup (0..MaxThreads)

(***************************************************************************)
(* State.                                                                  *)
(***************************************************************************)
VARIABLES
    store,       \* the bucket: key -> body
    identity,    \* the package variable identity
    caller,      \* history: the ARN sts:GetCallerIdentity answered, if it was asked
    threads,     \* the package variable threads
    pc,          \* position of run
    prefixes,    \* getShardPrefixes: prefixes of the current level
    lvl,         \* getShardPrefixes: lvl
    di,          \* getShardPrefixes: index of the prefix listed next
    next,        \* getShardPrefixes: next
    discoverErr, \* history: a ListObjectsV2 call of getShardPrefixes returned an error
    lpc,         \* listing goroutine i: position
    lrem,        \* listing goroutine i: keys the paginator has not returned yet
    lpage,       \* listing goroutine i: page.Contents
    lm,          \* the mutex lm: 0, or the goroutine holding it
    allKeys,     \* allKeys
    shardCount,  \* shardCount
    total,       \* total
    jobs,        \* the channel jobs
    closed,      \* close(jobs) has run
    ei,          \* index of the key enqueued next
    wpc,         \* worker w: position
    wkey,        \* worker w: key of the object in hand
    wrecs,       \* worker w: wrapper.Records
    widx,        \* worker w: index of the record in hand
    mu,          \* the mutex mu: 0, or the worker holding it
    actions,     \* the map actions
    secrets,     \* the map secrets (its key set)
    processed,   \* processed
    keysAct,     \* the operation list printed
    secOut,      \* the secret list printed
    decoded,     \* history: keys whose body was fetched, decompressed and parsed
    listFailed,  \* history: a paginator returned an error
    nraw,        \* normalizer runs: the raw identifier
    nout,        \* normalizer runs: normalizeArn(nraw)
    nout2,       \* normalizer runs: normalizeArn(nout)
    nalt,        \* normalizer runs: nraw with another session suffix
    naltout,     \* normalizer runs: normalizeArn(nalt)
    npc,         \* normalizer runs: position
    taken,       \* history: key -> times a worker received it from jobs
    handled,     \* history: key -> times process returned for it
    smap,        \* sorting runs: the map actions
    sset,        \* sorting runs: the map secrets (its key set)
    skeys,       \* sorting runs: sortedKeys(smap)
    slist,       \* sorting runs: secretsList(sset)
    spc,         \* sorting runs: position
    ppc,         \* listKeysParallel: position
    pjobs,       \* listKeysParallel: the channel jobs
    pwpc,        \* listKeysParallel worker: position
    pshard,      \* listKeysParallel worker: shard
    prem,        \* listKeysParallel worker: keys the paginator has not returned yet
    ppage,       \* listKeysParallel worker: page.Contents
    pmu,         \* listKeysParallel: the mutex mu: 0, or the worker holding it
    pall,        \* listKeysParallel: all
    perr         \* history: the shards whose paginator returned an error

mainVars == <<store, identity, caller, threads, pc>>

discVars == <<prefixes, lvl, di, next, discoverErr>>

listVars == <<lpc, lrem, lpage, lm, allKeys, shardCount, listFailed>>

queueVars == <<total, jobs, closed, ei>>

workVars == <<wpc, wkey, wrecs, widx, mu, actions, secrets, processed, decoded, taken, handled>>

outVars == <<keysAct, secOut>>

normVars == <<nraw, nout, nout2, nalt, naltout, npc>>

sortVars == <<smap, sset, skeys, slist, spc>>

poolVars == <<ppc, pjobs, pwpc, pshard, prem, ppage, pmu, pall, perr>>

sideVars == <<sortVars, poolVars>>

vars == <<mainVars, discVars, listVars, queueVars, workVars, outVars, normVars, sideVars>>

\* no sorting run
IdleSort == smap = <<>> /\ sset = {} /\ skeys = <<>> /\ slist = <<>> /\ spc = "off"

\* no call of listKeysParallel
IdlePool ==
    /\ ppc = "off" /\ pjobs = <<>> /\ pwpc = <<>> /\ pshard = <<>> /\ prem = <<>>
    /\ ppage = <<>> /\ pmu = 0 /\ pall = <<>> /\ perr = {}

InitPipeline(stores) ==
    /\ store \in stores
    /\ identity \in IdentityFlags
    /\ caller = <<>>
    /\ threads \in ThreadChoices
    /\ pc = "loadcfg"
    /\ prefixes = <<>> /\ lvl = 0 /\ di = 1 /\ next = <<>> /\ discoverErr = FALSE
    /\ lpc = <<>> /\ lrem = <<>> /\ lpage = <<>> /\ lm = 0
    /\ allKeys = <<>> /\ shardCount = 0 /\ listFailed = FALSE
    /\ total = 0 /\ jobs = <<>> /\ closed = FALSE /\ ei = 1
    /\ wpc = <<>> /\ wkey = <<>> /\ wrecs = <<>> /\ widx = <<>>
    /\ mu = 0 /\ actions = EmptyLedger /\ secrets = {} /\ processed = 0
    /\ decoded = {}
    /\ taken = [k \in DOMAIN store |-> 0] /\ handled = [k \in DOMAIN store |-> 0]
    /\ keysAct = <<>> /\ secOut = <<>>
    /\ nraw = <<>> /\ nout = <<>> /\ nout2 = <<>> /\ nalt = <<>> /\ naltout = <<>>
    /\ npc = "off"
    /\ IdleSort /\ IdlePool

Init == InitPipeline(RecordStores)

InitArchive == InitPipeline(LayoutStores)

(***************************************************************************)
(* run: configuration and identity.                                        *)
(***************************************************************************)
\* fail(err): print and os.Exit(1)
Fail == pc' = "failed"

\* config.LoadDefaultConfig
LoadConfig ==
    /\ pc = "loadcfg"
    /\ \/ pc' = "identity"
       \/ Fail
    /\ UNCHANGED <<store, identity, caller, threads>>
    /\ UNCHANGED <<discVars, listVars, queueVars, workVars, outVars, normVars, sideVars>>

\* if identity == "" { ... identity = normalizeArn(*res.Arn) }, then the call of
\* getShardPrefixes with prefixes := []string{base}
ResolveIdentity ==
    /\ pc = "identity"
    /\ \/ /\ identity = <<>>
          /\ \E arn \in CallerArns :
                /\ caller' = arn
                /\ identity' = normalizeArn(arn)
          /\ pc' = "discover"
          /\ prefixes' = <<Prefix>>
       \/ /\ identity = <<>>
          /\ Fail
          /\ UNCHANGED <<identity, caller, prefixes>>
       \/ /\ identity # <<>>
          /\ pc' = "discover"
          /\ prefixes' = <<Prefix>>
          /\ UNCHANGED <<identity, caller>>
    /\ UNCHANGED <<store, threads, lvl, di, next, discoverErr>>
    /\ UNCHANGED <<listVars, queueVars, workVars, outVars, normVars, sideVars>>

(***************************************************************************)
(* getShardPrefixes.                                                       *)
(***************************************************************************)
\* DiscoverList as it would be if a failed call were logged and its prefix skipped,
\* as the listing goroutines of run do
DiscoverListSkipOnError ==
    /\ pc = "discover"
    /\ di <= Len(prefixes)
    /\ \/ /\ next' = next \o CommonPrefixes(DOMAIN store, prefixes[di])
          /\ di' = di + 1
          /\ UNCHANGED <<pc, discoverErr>>
       \/ /\ discoverErr' = TRUE
          /\ di' = di + 1
          /\ UNCHANGED <<pc, next>>
    /\ UNCHANGED <<store, identity, caller, threads, prefixes, lvl>>
    /\ UNCHANGED <<listVars, queueVars, workVars, outVars, normVars, sideVars>>

\* one cli.ListObjectsV2 call of the inner loop: its common prefixes are appended
\* to next, or its error is passed to fail
DiscoverList ==
    /\ pc = "discover"
    /\ di <= Len(prefixes)
    /\ \/ /\ next' = next \o CommonPrefixes(DOMAIN store, prefixes[di])
          /\ di' = di + 1
          /\ UNCHANGED <<pc, discoverErr>>
       \/ /\ discoverErr' = TRUE
          /\ Fail
          /\ UNCHANGED <<next, di>>
    /\ UNCHANGED <<store, identity, caller, threads, prefixes, lvl>>
    /\ UNCHANGED <<listVars, queueVars, workVars, outVars, normVars, sideVars>>

\* the end of one level: break when next is empty, else descend
DiscoverLevelEnd ==
    /\ pc = "discover"
    /\ di > Len(prefixes)
    /\ IF Len(next) = 0
       THEN /\ pc' = "shards"
            /\ UNCHANGED <<prefixes, lvl>>
       ELSE /\ prefixes' = next
            /\ lvl' = lvl + 1
            /\ pc' = IF lvl + 1 < Levels THEN "discover" ELSE "shards"
    /\ di' = 1
    /\ next' = <<>>
    /\ UNCHANGED <<store, identity, caller, threads, discoverErr>>
    /\ UNCHANGED <<listVars, queueVars, workVars, outVars, normVars, sideVars>>

\* nShards := len(prefixes); a single shard falls back to the base prefix;
\* then one listing goroutine per prefix is started
StartListing ==
    /\ pc = "shards"
    /\ LET shards == IF Len(prefixes) > 1 THEN prefixes ELSE <<Prefix>>
       IN  /\ prefixes' = shards
           /\ lpc' = [i \in 1..Len(shards) |-> "page"]
           /\ lrem' = [i \in 1..Len(shards) |-> KeysUnder(DOMAIN store, shards[i])]
           /\ lpage' = [i \in 1..Len(shards) |-> <<>>]
    /\ pc' = "listing"
    /\ UNCHANGED <<store, identity, caller, threads, lvl, di, next, discoverErr>>
    /\ UNCHANGED <<lm, allKeys, shardCount, listFailed>>
    /\ UNCHANGED <<queueVars, workVars, outVars, normVars, sideVars>>

(***************************************************************************)
(* The listing goroutine of prefix i.                                      *)
(***************************************************************************)
\* paginator.NextPage: a page of at most PageSize keys, or an error (return)
ListNextPage(i) ==
    /\ pc = "listing"
    /\ lpc[i] = "page"
    /\ \/ /\ lpage' = [lpage EXCEPT ![i] = Take(lrem[i], PageSize)]
          /\ lrem' = [lrem EXCEPT ![i] = Drop(lrem[i], PageSize)]
          /\ lpc' = [lpc EXCEPT ![i] = "lock"]
          /\ UNCHANGED listFailed
       \/ /\ lpc' = [lpc EXCEPT ![i] = "done"]
          /\ listFailed' = TRUE
          /\ UNCHANGED <<lpage, lrem>>
    /\ UNCHANGED <<lm, allKeys, shardCount>>
    /\ UNCHANGED <<mainVars, discVars, queueVars, workVars, outVars, normVars, sideVars>>

\* lm.Lock()
ListLock(i) ==
    /\ pc = "listing"
    /\ lpc[i] = "lock"
    /\ lm = 0
    /\ lm' = i
    /\ lpc' = [lpc EXCEPT ![i] = "append"]
    /\ UNCHANGED <<lrem, lpage, allKeys, shardCount, listFailed>>
    /\ UNCHANGED <<mainVars, discVars, queueVars, workVars, outVars, normVars, sideVars>>

\* allKeys = append(allKeys, page.Contents...); lm.Unlock(); paginator.HasMorePages()
ListAppend(i) ==
    /\ pc = "listing"
    /\ lpc[i] = "append"
    /\ lm = i
    /\ allKeys' = allKeys \o lpage[i]
    /\ lm' = 0
    /\ lpc' = [lpc EXCEPT ![i] = IF Len(lrem[i]) > 0 THEN "page" ELSE "count"]
    /\ UNCHANGED <<lrem, lpage, shardCount, listFailed>>
    /\ UNCHANGED <<mainVars, discVars, queueVars, workVars, outVars, normVars, sideVars>>

\* atomic.AddInt64(&shardCount, 1); the deferred lwg.Done()
ListCount(i) ==
    /\ pc = "listing"
    /\ lpc[i] = "count"
    /\ shardCount' = shardCount + 1
    /\ lpc' = [lpc EXCEPT ![i] = "done"]
    /\ UNCHANGED <<lrem, lpage, lm, allKeys, listFailed>>
    /\ UNCHANGED <<mainVars, discVars, queueVars, workVars, outVars, normVars, sideVars>>

\* ListingDone as it would be without lwg.Wait()
ListingDoneNoWait ==
    /\ pc = "listing"
    /\ total' = Len(allKeys)
    /\ pc' = "enqueue"
    /\ UNCHANGED <<store, identity, caller, threads, jobs, closed, ei>>
    /\ UNCHANGED <<discVars, listVars, workVars, outVars, normVars, sideVars>>

\* ListingDone as it would be if a listing without keys were fatal
ListingDoneFatalOnEmpty ==
    /\ pc = "listing"
    /\ \A i \in DOMAIN lpc : lpc[i] = "done"
    /\ total' = Len(allKeys)
    /\ pc' = IF Len(allKeys) = 0 THEN "failed" ELSE "enqueue"
    /\ UNCHANGED <<store, identity, caller, threads, jobs, closed, ei>>
    /\ UNCHANGED <<discVars, listVars, workVars, outVars, normVars, sideVars>>

\* lwg.Wait(); total := int64(len(allKeys)); jobs := make(chan types.Object, total)
ListingDone ==
    /\ pc = "listing"
    /\ \A i \in DOMAIN lpc : lpc[i] = "done"
    /\ total' = Len(allKeys)
    /\ pc' = "enqueue"
    /\ UNCHANGED <<store, identity, caller, threads, jobs, closed, ei>>
    /\ UNCHANGED <<discVars, listVars, workVars, outVars, normVars, sideVars>>

(***************************************************************************)
(* run: the work queue and the worker pool.                                *)
(***************************************************************************)
\* jobs <- obj, for one key of allKeys (the channel has room for total keys)
EnqueueJob ==
    /\ pc = "enqueue"
    /\ ei <= Len(allKeys)
    /\ Len(jobs) < total
    /\ jobs' = Append(jobs, allKeys[ei])
    /\ ei' = ei + 1
    /\ UNCHANGED <<total, closed>>
    /\ UNCHANGED <<mainVars, discVars, listVars, workVars, outVars, normVars, sideVars>>

\* StartWorkers as it would be without close(jobs)
StartWorkersNoClose ==
    /\ pc = "enqueue"
    /\ ei > Len(allKeys)
    /\ wpc' = [w \in 1..threads |-> "recv"]
    /\ wkey' = [w \in 1..threads |-> <<>>]
    /\ wrecs' = [w \in 1..threads |-> <<>>]
    /\ widx' = [w \in 1..threads |-> 0]
    /\ pc' = "working"
    /\ UNCHANGED <<store, identity, caller, threads, total, jobs, closed, ei>>
    /\ UNCHANGED <<mu, actions, secrets, processed, decoded, taken, handled>>
    /\ UNCHANGED <<discVars, listVars, outVars, normVars, sideVars>>

\* StartWorkers as it would be if a width below 1 were raised to 1
StartWorkersAtLeastOne ==
    /\ pc = "enqueue"
    /\ ei > Len(allKeys)
    /\ closed' = TRUE
    /\ LET n == IF threads < 1 THEN 1 ELSE threads
       IN  /\ wpc' = [w \in 1..n |-> "recv"]
           /\ wkey' = [w \in 1..n |-> <<>>]
           /\ wrecs' = [w \in 1..n |-> <<>>]
           /\ widx' = [w \in 1..n |-> 0]
    /\ pc' = "working"
    /\ UNCHANGED <<store, identity, caller, threads, total, jobs, ei>>
    /\ UNCHANGED <<mu, actions, secrets, processed, decoded, taken, handled>>
    /\ UNCHANGED <<discVars, listVars, outVars, normVars, sideVars>>

\* close(jobs); for i := 0; i < threads; i++ { wg.Add(1); go func() {...}() }
StartWorkers ==
    /\ pc = "enqueue"
    /\ ei > Len(allKeys)
    /\ closed' = TRUE
    /\ wpc' = [w \in 1..threads |-> "recv"]
    /\ wkey' = [w \in 1..threads |-> <<>>]
    /\ wrecs' = [w \in 1..threads |-> <<>>]
    /\ widx' = [w \in 1..threads |-> 0]
    /\ pc' = "working"
    /\ UNCHANGED <<store, identity, caller, threads, total, jobs, ei>>
    /\ UNCHANGED <<mu, actions, secrets, processed, decoded, taken, handled>>
    /\ UNCHANGED <<discVars, listVars, outVars, normVars, sideVars>>

\* Receive as it would be if a receive dropped the key behind the one it takes
ReceiveSkipping(w) ==
    /\ pc = "working"
    /\ wpc[w] = "recv"
    /\ \/ /\ Len(jobs) > 0
          /\ wkey' = [wkey EXCEPT ![w] = Head(jobs)]
          /\ jobs' = Drop(jobs, 2)
          /\ taken' = [taken EXCEPT ![Head(jobs)] = @ + 1]
          /\ wpc' = [wpc EXCEPT ![w] = "fetch"]
       \/ /\ Len(jobs) = 0
          /\ closed
          /\ wpc' = [wpc EXCEPT ![w] = "exit"]
          /\ UNCHANGED <<wkey, jobs, taken>>
    /\ UNCHANGED <<total, closed, ei>>
    /\ UNCHANGED <<wrecs, widx, mu, actions, secrets, processed, decoded, handled>>
    /\ UNCHANGED <<mainVars, discVars, listVars, outVars, normVars, sideVars>>

\* for obj := range jobs: take the next key, or leave the loop (wg.Done)
Receive(w) ==
    /\ pc = "working"
    /\ wpc[w] = "recv"
    /\ \/ /\ Len(jobs) > 0
          /\ wkey' = [wkey EXCEPT ![w] = Head(jobs)]
          /\ jobs' = Tail(jobs)
          /\ taken' = [taken EXCEPT ![Head(jobs)] = @ + 1]
          /\ wpc' = [wpc EXCEPT ![w] = "fetch"]
       \/ /\ Len(jobs) = 0
          /\ closed
          /\ wpc' = [wpc EXCEPT ![w] = "exit"]
          /\ UNCHANGED <<wkey, jobs, taken>>
    /\ UNCHANGED <<total, closed, ei>>
    /\ UNCHANGED <<wrecs, widx, mu, actions, secrets, processed, decoded, handled>>
    /\ UNCHANGED <<mainVars, discVars, listVars, outVars, normVars, sideVars>>

\* Decodes as it would be if the error of gzip.NewReader were ignored
DecodesIgnoringGzip(body) == body.status \in {"ok", "badgzip"}

\* err == nil after GetObject, gzip.NewReader and Decode
Decodes(body) == body.status = "ok"

\* the position after the record in hand: the next record, or the end of process
AfterRecord(w) == IF widx[w] + 1 > Len(wrecs[w]) THEN "count" ELSE "record"

\* process: cli.GetObject, gzip.NewReader, json.NewDecoder(gz).Decode(&wrapper);
\* any of the three failing returns from process
Fetch(w) ==
    /\ pc = "working"
    /\ wpc[w] = "fetch"
    /\ LET body == store[wkey[w]]
       IN  IF Decodes(body)
           THEN /\ wrecs' = [wrecs EXCEPT ![w] = body.recs]
                /\ widx' = [widx EXCEPT ![w] = 1]
                /\ decoded' = decoded \cup {wkey[w]}
                /\ wpc' = [wpc EXCEPT ![w] = IF Len(body.recs) = 0 THEN "count" ELSE "record"]
           ELSE /\ wpc' = [wpc EXCEPT ![w] = "count"]
                /\ UNCHANGED <<wrecs, widx, decoded>>
    /\ UNCHANGED <<wkey, mu, actions, secrets, processed, taken, handled>>
    /\ UNCHANGED <<mainVars, discVars, listVars, queueVars, outVars, normVars, sideVars>>

\* the record in hand
Event(w) == Rec(wrecs[w][widx[w]])

\* ProcessRecord as it would be if a record that does not parse ended process
ProcessRecordAbortOnMalformed(w) ==
    /\ pc = "working"
    /\ wpc[w] = "record"
    /\ IF ~Event(w).wellFormed
       THEN /\ wpc' = [wpc EXCEPT ![w] = "count"]
            /\ UNCHANGED widx
       ELSE IF Skipped(Event(w), identity)
       THEN /\ wpc' = [wpc EXCEPT ![w] = AfterRecord(w)]
            /\ widx' = [widx EXCEPT ![w] = @ + 1]
       ELSE /\ wpc' = [wpc EXCEPT ![w] = "lockActions"]
            /\ UNCHANGED widx
    /\ UNCHANGED <<wkey, wrecs, mu, actions, secrets, processed, decoded, taken, handled>>
    /\ UNCHANGED <<mainVars, discVars, listVars, queueVars, outVars, normVars, sideVars>>

\* json.Unmarshal(raw, &ev) and the filter: continue, or go on to mu.Lock()
ProcessRecord(w) ==
    /\ pc = "working"
    /\ wpc[w] = "record"
    /\ IF ~Event(w).wellFormed \/ Skipped(Event(w), identity)
       THEN /\ wpc' = [wpc EXCEPT ![w] = AfterRecord(w)]
            /\ widx' = [widx EXCEPT ![w] = @ + 1]
       ELSE /\ wpc' = [wpc EXCEPT ![w] = "lockActions"]
            /\ UNCHANGED widx
    /\ UNCHANGED <<wkey, wrecs, mu, actions, secrets, processed, decoded, taken, handled>>
    /\ UNCHANGED <<mainVars, discVars, listVars, queueVars, outVars, normVars, sideVars>>

\* LockActions as it would be if mu.Lock() did not wait for the holder
LockActionsNoWait(w) ==
    /\ pc = "working"
    /\ wpc[w] = "lockActions"
    /\ mu' = w
    /\ wpc' = [wpc EXCEPT ![w] = "inActions"]
    /\ UNCHANGED <<wkey, wrecs, widx, actions, secrets, processed, decoded, taken, handled>>
    /\ UNCHANGED <<mainVars, discVars, listVars, queueVars, outVars, normVars, sideVars>>

\* mu.Lock() before the update of actions
LockActions(w) ==
    /\ pc = "working"
    /\ wpc[w] = "lockActions"
    /\ mu = 0
    /\ mu' = w
    /\ wpc' = [wpc EXCEPT ![w] = "inActions"]
    /\ UNCHANGED <<wkey, wrecs, widx, actions, secrets, processed, decoded, taken, handled>>
    /\ UNCHANGED <<mainVars, discVars, listVars, queueVars, outVars, normVars, sideVars>>

\* the update of actions, mu.Unlock(), and the test for a secret retrieval
UpdateActions(w) ==
    /\ pc = "working"
    /\ wpc[w] = "inActions"
    /\ mu = w
    /\ actions' = Upsert(actions, OperationKey(Event(w)), Event(w).eventTime)
    /\ mu' = 0
    /\ IF IsSecretAccess(Event(w))
       THEN /\ wpc' = [wpc EXCEPT ![w] = "lockSecrets"]
            /\ UNCHANGED widx
       ELSE /\ wpc' = [wpc EXCEPT ![w] = AfterRecord(w)]
            /\ widx' = [widx EXCEPT ![w] = @ + 1]
    /\ UNCHANGED <<wkey, wrecs, secrets, processed, decoded, taken, handled>>
    /\ UNCHANGED <<mainVars, discVars, listVars, queueVars, outVars, normVars, sideVars>>

\* mu.Lock() before the update of secrets
LockSecrets(w) ==
    /\ pc = "working"
    /\ wpc[w] = "lockSecrets"
    /\ mu = 0
    /\ mu' = w
    /\ wpc' = [wpc EXCEPT ![w] = "inSecrets"]
    /\ UNCHANGED <<wkey, wrecs, widx, actions, secrets, processed, decoded, taken, handled>>
    /\ UNCHANGED <<mainVars, discVars, listVars, queueVars, outVars, normVars, sideVars>>

\* secrets[sid] = struct{}{}; mu.Unlock()
UpdateSecrets(w) ==
    /\ pc = "working"
    /\ wpc[w] = "inSecrets"
    /\ mu = w
    /\ secrets' = secrets \cup {Event(w).secretId.val}
    /\ mu' = 0
    /\ wpc' = [wpc EXCEPT ![w] = AfterRecord(w)]
    /\ widx' = [widx EXCEPT ![w] = @ + 1]
    /\ UNCHANGED <<wkey, wrecs, actions, processed, decoded, taken, handled>>
    /\ UNCHANGED <<mainVars, discVars, listVars, queueVars, outVars, normVars, sideVars>>

\* cur := atomic.AddInt64(&processed, 1)
CountProcessed(w) ==
    /\ pc = "working"
    /\ wpc[w] = "count"
    /\ processed' = processed + 1
    /\ handled' = [handled EXCEPT ![wkey[w]] = @ + 1]
    /\ wpc' = [wpc EXCEPT ![w] = "recv"]
    /\ UNCHANGED <<wkey, wrecs, widx, mu, actions, secrets, decoded, taken>>
    /\ UNCHANGED <<mainVars, discVars, listVars, queueVars, outVars, normVars, sideVars>>

(***************************************************************************)
(* run: output.                                                            *)
(***************************************************************************)
\* sortedKeys(actions)
sortedKeys(m) == SortStrings(DOMAIN m)

\* secretsList(secrets)
secretsList(m) == SortStrings(m)

\* wg.Wait(); the sorted operations are printed, and the sorted secrets if any
Output ==
    /\ pc = "working"
    /\ \A w \in DOMAIN wpc : wpc[w] = "exit"
    /\ keysAct' = sortedKeys(actions)
    /\ secOut' = IF Cardinality(secrets) > 0 THEN secretsList(secrets) ELSE <<>>
    /\ pc' = "done"
    /\ UNCHANGED <<store, identity, caller, threads>>
    /\ UNCHANGED <<discVars, listVars, queueVars, workVars, normVars, sideVars>>

(***************************************************************************)
(* Normalizer runs: normalizeArn applied to raw identifiers assembled from *)
(* the segments ARNs are made of, in any order.                            *)
(***************************************************************************)
\* arn:aws:sts::12 and arn:aws:iam::12
StsAccount == StsPrefix \o Account

IamAccount == IamPrefix \o Account

Chunks == {StsAccount, IamAccount, AssumedRoleSeg, RoleSeg, Slash, RoleA, RoleB}

RECURSIVE Concat(_)
Concat(ss) == IF Len(ss) = 0 THEN <<>> ELSE Head(ss) \o Concat(Tail(ss))

RawIdentifiers == {Concat(ss) : ss \in SeqsUpTo(Chunks, MaxChunks)}

\* the number of "/" in s
RECURSIVE SlashCount(_)
SlashCount(s) ==
    IF Len(s) = 0 THEN 0
    ELSE (IF Head(s) = "/" THEN 1 ELSE 0) + SlashCount(Tail(s))

\* s cut before its second "/": what precedes the session suffix
BeforeSession(s) ==
    LET i == Index(s, Slash)
        j == Index(SubSeq(s, i + 2, Len(s)), Slash)
    IN  IF j = -1 THEN s ELSE SubSeq(s, 1, i + 1 + j)

InitNorm ==
    /\ nraw \in RawIdentifiers
    /\ npc = "raw"
    /\ nout = <<>> /\ nout2 = <<>> /\ nalt = <<>> /\ naltout = <<>>
    /\ store = <<>> /\ identity = <<>> /\ caller = <<>> /\ threads = 0 /\ pc = "off"
    /\ prefixes = <<>> /\ lvl = 0 /\ di = 1 /\ next = <<>> /\ discoverErr = FALSE
    /\ lpc = <<>> /\ lrem = <<>> /\ lpage = <<>> /\ lm = 0
    /\ allKeys = <<>> /\ shardCount = 0 /\ listFailed = FALSE
    /\ total = 0 /\ jobs = <<>> /\ closed = FALSE /\ ei = 1
    /\ wpc = <<>> /\ wkey = <<>> /\ wrecs = <<>> /\ widx = <<>>
    /\ mu = 0 /\ actions = EmptyLedger /\ secrets = {} /\ processed = 0
    /\ decoded = {} /\ taken = <<>> /\ handled = <<>>
    /\ keysAct = <<>> /\ secOut = <<>>
    /\ IdleSort /\ IdlePool

pipelineVars == <<mainVars, discVars, listVars, queueVars, workVars, outVars>>

\* norm := normalizeArn(raw)
Normalize ==
    /\ npc = "raw"
    /\ nout' = normalizeArn(nraw)
    /\ npc' = "once"
    /\ UNCHANGED <<nraw, nout2, nalt, naltout, pipelineVars, sideVars>>

\* the result normalized again
Renormalize ==
    /\ npc = "once"
    /\ nout2' = normalizeArn(nout)
    /\ npc' = "twice"
    /\ UNCHANGED <<nraw, nout, nalt, naltout, pipelineVars, sideVars>>

\* the same identifier with another session suffix (or none), normalized
NormalizeSibling ==
    /\ npc = "once"
    /\ SlashCount(nraw) >= 1
    /\ \E s \in Chunks \cup {<<>>} :
          nalt' = IF s = <<>> THEN BeforeSession(nraw)
                  ELSE BeforeSession(nraw) \o Slash \o s
    /\ naltout' = normalizeArn(nalt')
    /\ npc' = "sibling"
    /\ UNCHANGED <<nraw, nout, nout2, pipelineVars, sideVars>>

NextNorm == Normalize \/ Renormalize \/ NormalizeSibling

SpecNorm == InitNorm /\ [][NextNorm]_vars

(***************************************************************************)
(* Sorting runs: sortedKeys and secretsList applied to maps of up to       *)
(* MaxKeys entries.                                                        *)
(***************************************************************************)
\* run has not started
IdleRun ==
    /\ identity = <<>> /\ caller = <<>> /\ pc = "off"
    /\ prefixes = <<>> /\ lvl = 0 /\ di = 1 /\ next = <<>> /\ discoverErr = FALSE
    /\ lpc = <<>> /\ lrem = <<>> /\ lpage = <<>> /\ lm = 0
    /\ allKeys = <<>> /\ shardCount = 0 /\ listFailed = FALSE
    /\ total = 0 /\ jobs = <<>> /\ closed = FALSE /\ ei = 1
    /\ wpc = <<>> /\ wkey = <<>> /\ wrecs = <<>> /\ widx = <<>>
    /\ mu = 0 /\ actions = EmptyLedger /\ secrets = {} /\ processed = 0
    /\ decoded = {} /\ taken = <<>> /\ handled = <<>>
    /\ keysAct = <<>> /\ secOut = <<>>

\* run has not started, and there is no bucket
IdlePipeline == store = <<>> /\ threads = 0 /\ IdleRun

\* no normalizer run
IdleNorm ==
    /\ nraw = <<>> /\ nout = <<>> /\ nout2 = <<>> /\ nalt = <<>> /\ naltout = <<>>
    /\ npc = "off"

\* operation keys: one a prefix of another, and two that differ in case only
OperationKeys ==
    {Ec2Describe, SecretsGet, <<"e", "c", "2", ":", "D">>,
     <<"s", "3", ":", "L">>, <<"S", "3", ":", "L">>}

\* secret identifiers: one a prefix of another, digits, upper and lower case
SecretIds ==
    {ProdDb, <<"d", "b">>, <<"d", "b", "/", "1">>, <<"D", "b">>, <<"1", "0">>}

InitSort ==
    /\ \E ks \in {s \in SUBSET OperationKeys : Cardinality(s) <= MaxKeys} :
          smap \in [ks -> {T1, T2}]
    /\ sset \in {s \in SUBSET SecretIds : Cardinality(s) <= MaxKeys}
    /\ skeys = <<>> /\ slist = <<>> /\ spc = "maps"
    /\ IdlePipeline /\ IdleNorm /\ IdlePool

\* keysAct := sortedKeys(actions)
SortKeys ==
    /\ spc = "maps"
    /\ skeys' = sortedKeys(smap)
    /\ spc' = "keys"
    /\ UNCHANGED <<smap, sset, slist, pipelineVars, normVars, poolVars>>

\* secretsList(secrets)
SortSecrets ==
    /\ spc = "keys"
    /\ slist' = secretsList(sset)
    /\ spc' = "sorted"
    /\ UNCHANGED <<smap, sset, skeys, pipelineVars, normVars, poolVars>>

NextSort == SortKeys \/ SortSecrets

SpecSort == InitSort /\ [][NextSort]_vars

(***************************************************************************)
(* Pooled listing runs: listKeysParallel(ctx, cli, bucket, prefix, shards) *)
(* of the earlier revision, with shards = threads.                         *)
(***************************************************************************)
InitPool ==
    /\ store \in LayoutStores
    /\ threads \in ThreadChoices
    /\ ppc = "first" /\ pjobs = <<>> /\ pwpc = <<>> /\ pshard = <<>> /\ prem = <<>>
    /\ ppage = <<>> /\ pmu = 0 /\ pall = <<>> /\ perr = {}
    /\ IdleRun /\ IdleNorm /\ IdleSort

\* the first ListObjectsV2 with the delimiter: fail(err), or the fallback to
\* listKeys when there is no common prefix, or the shard queue is filled and
\* closed and the pool of shards workers is started
PoolDiscover ==
    /\ ppc = "first"
    /\ LET cps == CommonPrefixes(DOMAIN store, Prefix)
       IN  \/ /\ ppc' = "failed"
              /\ UNCHANGED <<pjobs, pwpc, pshard, prem, ppage>>
           \/ /\ Len(cps) = 0
              /\ ppc' = "fallback"
              /\ prem' = <<KeysUnder(DOMAIN store, Prefix)>>
              /\ UNCHANGED <<pjobs, pwpc, pshard, ppage>>
           \/ /\ Len(cps) > 0
              /\ ppc' = "pool"
              /\ pjobs' = cps
              /\ pwpc' = [w \in 1..threads |-> "recv"]
              /\ pshard' = [w \in 1..threads |-> <<>>]
              /\ prem' = [w \in 1..threads |-> <<>>]
              /\ ppage' = [w \in 1..threads |-> <<>>]
    /\ UNCHANGED <<pmu, pall, perr, pipelineVars, normVars, sortVars>>

\* listKeys: one page of the single paginator, or fail(err)
FallbackPage ==
    /\ ppc = "fallback"
    /\ \/ /\ pall' = pall \o Take(prem[1], PageSize)
          /\ prem' = <<Drop(prem[1], PageSize)>>
          /\ ppc' = IF Len(prem[1]) > PageSize THEN "fallback" ELSE "returned"
       \/ /\ ppc' = "failed"
          /\ UNCHANGED <<pall, prem>>
    /\ UNCHANGED <<pjobs, pwpc, pshard, ppage, pmu, perr, pipelineVars, normVars, sortVars>>

\* for shard := range jobs: the next shard and its paginator, or the end of the
\* loop (wg.Done)
PoolReceive(w) ==
    /\ ppc = "pool"
    /\ pwpc[w] = "recv"
    /\ IF Len(pjobs) > 0
       THEN /\ pshard' = [pshard EXCEPT ![w] = Head(pjobs)]
            /\ pjobs' = Tail(pjobs)
            /\ prem' = [prem EXCEPT ![w] = KeysUnder(DOMAIN store, Head(pjobs))]
            /\ pwpc' = [pwpc EXCEPT ![w] = "page"]
       ELSE /\ pwpc' = [pwpc EXCEPT ![w] = "exit"]
            /\ UNCHANGED <<pshard, pjobs, prem>>
    /\ UNCHANGED <<ppc, ppage, pmu, pall, perr, pipelineVars, normVars, sortVars>>

\* p.NextPage(ctx): a page, or an error, on which the worker returns
PoolNextPage(w) ==
    /\ ppc = "pool"
    /\ pwpc[w] = "page"
    /\ \/ /\ ppage' = [ppage EXCEPT ![w] = Take(prem[w], PageSize)]
          /\ prem' = [prem EXCEPT ![w] = Drop(prem[w], PageSize)]
          /\ pwpc' = [pwpc EXCEPT ![w] = "lock"]
          /\ UNCHANGED perr
       \/ /\ perr' = perr \cup {pshard[w]}
          /\ pwpc' = [pwpc EXCEPT ![w] = "exit"]
          /\ UNCHANGED <<ppage, prem>>
    /\ UNCHANGED <<ppc, pjobs, pshard, pmu, pall, pipelineVars, normVars, sortVars>>

\* mu.Lock()
PoolLock(w) ==
    /\ ppc = "pool"
    /\ pwpc[w] = "lock"
    /\ pmu = 0
    /\ pmu' = w
    /\ pwpc' = [pwpc EXCEPT ![w] = "append"]
    /\ UNCHANGED <<ppc, pjobs, pshard, prem, ppage, pall, perr>>
    /\ UNCHANGED <<pipelineVars, normVars, sortVars>>

\* all = append(all, page.Contents...); mu.Unlock(); p.HasMorePages()
PoolAppend(w) ==
    /\ ppc = "pool"
    /\ pwpc[w] = "append"
    /\ pmu = w
    /\ pall' = pall \o ppage[w]
    /\ pmu' = 0
    /\ pwpc' = [pwpc EXCEPT ![w] = IF Len(prem[w]) > 0 THEN "page" ELSE "recv"]
    /\ UNCHANGED <<ppc, pjobs, pshard, prem, ppage, perr>>
    /\ UNCHANGED <<pipelineVars, normVars, sortVars>>

\* wg.Wait(); return all
PoolReturn ==
    /\ ppc = "pool"
    /\ \A w \in DOMAIN pwpc : pwpc[w] = "exit"
    /\ ppc' = "returned"
    /\ UNCHANGED <<pjobs, pwpc, pshard, prem, ppage, pmu, pall, perr>>
    /\ UNCHANGED <<pipelineVars, normVars, sortVars>>

NextPool ==
    \/ PoolDiscover
    \/ FallbackPage
    \/ \E w \in DOMAIN pwpc : PoolReceive(w)
    \/ \E w \in DOMAIN pwpc : PoolNextPage(w)
    \/ \E w \in DOMAIN pwpc : PoolLock(w)
    \/ \E w \in DOMAIN pwpc : PoolAppend(w)
    \/ PoolReturn

SpecPool == InitPool /\ [][NextPool]_vars

(***************************************************************************)
(* The pipeline.                                                           *)
(***************************************************************************)
Next ==
    \/ LoadConfig
    \/ ResolveIdentity
    \/ DiscoverList
    \/ DiscoverLevelEnd
    \/ StartListing
    \/ \E i \in DOMAIN lpc : ListNextPage(i)
    \/ \E i \in DOMAIN lpc : ListLock(i)
    \/ \E i \in DOMAIN lpc : ListAppend(i)
    \/ \E i \in DOMAIN lpc : ListCount(i)
    \/ ListingDone
    \/ EnqueueJob
    \/ StartWorkers
    \/ \E w \in DOMAIN wpc : Receive(w)
    \/ \E w \in DOMAIN wpc : Fetch(w)
    \/ \E w \in DOMAIN wpc : ProcessRecord(w)
    \/ \E w \in DOMAIN wpc : LockActions(w)
    \/ \E w \in DOMAIN wpc : UpdateActions(w)
    \/ \E w \in DOMAIN wpc : LockSecrets(w)
    \/ \E w \in DOMAIN wpc : UpdateSecrets(w)
    \/ \E w \in DOMAIN wpc : CountProcessed(w)
    \/ Output

Spec == Init /\ [][Next]_vars

SpecArchive == InitArchive /\ [][Next]_vars

\* the steps of the processing phase: the main goroutine from the queueing of
\* the keys on, and the workers
Processing ==
    \/ EnqueueJob
    \/ StartWorkers
    \/ \E w \in DOMAIN wpc :
          \/ Receive(w) \/ Fetch(w) \/ ProcessRecord(w) \/ LockActions(w) \/ UpdateActions(w)
          \/ LockSecrets(w) \/ UpdateSecrets(w) \/ CountProcessed(w)
    \/ Output

\* in the processing phase a goroutine that can take a step is scheduled, and
\* every GetObject call returns
FairSpec == Init /\ [][Next]_vars /\ WF_vars(Processing)

(***************************************************************************)
(* What the claims speak of.                                               *)
(***************************************************************************)
\* the well-formed records of the objects in keys
EventsIn(keys) ==
    {ev \in UNION {{Rec(store[k].recs[i]) : i \in 1..Len(store[k].recs)} : k \in keys} :
       ev.wellFormed}

\* the records of fetched, decompressed and parsed objects whose normalized
\* principal is the target and whose error indicator is null
Matching == {ev \in EventsIn(decoded) : normalizeArn(ev.arn) = identity /\ ~ev.errorCode}

RoleIdentity == IamPrefix \o Account \o <<":", "r", "o", "l", "e">>

UserIdentity == IamPrefix \o Account \o <<":", "u", "s", "e", "r">>

Reverse(s) == [i \in 1..Len(s) |-> s[Len(s) + 1 - i]]

\* the records of one object processed in order, by one worker alone
RECURSIVE FoldRecords(_, _)
FoldRecords(acc, recs) ==
    IF Len(recs) = 0 THEN acc
    ELSE LET ev == Rec(Head(recs))
             step == IF ~ev.wellFormed \/ Skipped(ev, identity) THEN acc
                     ELSE [ledger |-> Upsert(acc.ledger, OperationKey(ev), ev.eventTime),
                           secrets |-> IF IsSecretAccess(ev)
                                       THEN acc.secrets \cup {ev.secretId.val}
                                       ELSE acc.secrets]
         IN  FoldRecords(step, Tail(recs))

\* the objects of a queue processed in order, by one worker alone
RECURSIVE FoldObjects(_, _)
FoldObjects(acc, keys) ==
    IF Len(keys) = 0 THEN acc
    ELSE FoldObjects(IF Decodes(store[Head(keys)])
                     THEN FoldRecords(acc, store[Head(keys)].recs)
                     ELSE acc,
                     Tail(keys))

SequentialRun(keys) == FoldObjects([ledger |-> EmptyLedger, secrets |-> {}], keys)

(***************************************************************************)
(* Claims.                                                                 *)
(***************************************************************************)
\* C1: once the workers have joined, the ledger holds exactly the operation
\* keys of the records of successfully fetched, decompressed and parsed
\* objects whose normalized principal is the target and whose error indicator
\* is null, each with the lexically greatest eventTime among those records.
C1_LedgerIsReduction ==
    pc = "done" =>
        /\ DOMAIN actions = {OperationKey(ev) : ev \in Matching}
        /\ \A k \in DOMAIN actions :
              /\ \E ev \in Matching : OperationKey(ev) = k /\ ev.eventTime = actions[k]
              /\ \A ev \in Matching :
                    OperationKey(ev) = k => ~LexLess(actions[k], ev.eventTime)

\* the later record is first in the queue, the earlier one in the other object,
\* two workers: the ledger holds the later timestamp
C1_Witness ==
    /\ pc = "done"
    /\ threads = 2
    /\ identity = RoleIdentity
    /\ store[KeyA] = OkBody(<<"r2">>)
    /\ store[KeyB] = OkBody(<<"r1">>)
    /\ decoded = {KeyA, KeyB}
    /\ actions[Ec2Describe] = T2

\* C2: for a pool of at least one worker, whatever the assignment of objects
\* to workers and the interleaving of their updates, the final ledger and
\* secret set are those one worker alone produces from the same queue, and
\* those it produces from the queue in the opposite order.
C2_OrderIndependent ==
    (pc = "done" /\ threads >= 1) =>
        /\ actions = SequentialRun(allKeys).ledger
        /\ secrets = SequentialRun(allKeys).secrets
        /\ SequentialRun(Reverse(allKeys)) = SequentialRun(allKeys)

\* two workers, each took one of the two objects, the second worker the first
\* object of the queue; both objects contributed
C2_Witness ==
    /\ pc = "done"
    /\ threads = 2
    /\ wkey[1] = KeyB
    /\ wkey[2] = KeyA
    /\ identity = RoleIdentity
    /\ store[KeyA] = OkBody(<<"r1">>)
    /\ store[KeyB] = OkBody(<<"r2">>)
    /\ actions[Ec2Describe] = T2

\* C3 (as claimed): a successful secret retrieval with a string secretId by a
\* principal other than the target adds the secretId to the secret set.
C3_SecretsIdentityAgnostic ==
    pc = "done" =>
        \A ev \in EventsIn(decoded) :
            (~ev.errorCode /\ IsSecretAccess(ev) /\ normalizeArn(ev.arn) # identity)
                => ev.secretId.val \in secrets

\* C4 (as claimed): with --identity given as the full ARN of a user, every
\* successful record of that user contributes its operation key to the ledger.
C4_ExplicitIdentityMatches ==
    (pc = "done" /\ caller = <<>> /\ identity = BobArn) =>
        \A ev \in EventsIn(decoded) :
            (ev.arn = identity /\ ~ev.errorCode) => OperationKey(ev) \in DOMAIN actions

\* account, principal type and name of a raw identifier: the session suffix
\* removed, the name kept
PrincipalOf(raw) ==
    BeforeSession(ReplaceFirst(ReplaceFirst(raw, StsPrefix, IamPrefix),
                               AssumedRoleSeg, RoleSeg))

\* C5 (as claimed): the normalized identifier tells principals of different
\* names apart, so every ledger entry comes from a record of the very
\* principal the caller identity names.
C5_NameDistinguishes ==
    (pc = "done" /\ caller # <<>>) =>
        \A k \in DOMAIN actions :
            \E ev \in EventsIn(decoded) :
                /\ ~ev.errorCode
                /\ OperationKey(ev) = k
                /\ PrincipalOf(ev.arn) = PrincipalOf(caller)

\* the number of occurrences of sub in s
Occurrences(s, sub) == Cardinality({i \in 1..Len(s) : OccursAt(s, sub, i)})

\* C6 (as claimed): normalizing twice equals normalizing once, for every raw
\* identifier.
C6_Idempotent == npc = "twice" => nout2 = nout

\* C6 (amended): normalizing twice equals normalizing once, for every raw
\* identifier in which "arn:aws:sts::" occurs at most once.
C6_IdempotentSingleSts ==
    (npc = "twice" /\ Occurrences(nraw, StsPrefix) <= 1) => nout2 = nout

\* the ARN of a role session, normalized twice
C6_Witness ==
    /\ npc = "twice"
    /\ nraw = StsAccount \o AssumedRoleSeg \o RoleA \o Slash \o RoleB
    /\ nout = IamAccount \o <<":", "r", "o", "l", "e">>
    /\ nout2 = nout

\* C7: two raw identifiers that differ only in what follows the principal
\* name (the session suffix) have the same normalized identifier.
C7_SessionSuffixIrrelevant == npc = "sibling" => naltout = nout

\* two sessions of the same role
C7_Witness ==
    /\ npc = "sibling"
    /\ nraw = StsAccount \o AssumedRoleSeg \o RoleA \o Slash \o RoleB
    /\ nalt = StsAccount \o AssumedRoleSeg \o RoleA \o Slash \o RoleA
    /\ naltout = nout
    /\ nout = IamAccount \o <<":", "r", "o", "l", "e">>

\* C8: in every reachable state each ledger entry is the timestamp of a
\* record without error indicator: a record with a non-null error indicator
\* never contributes, even when its identity and operation match.
C8_ErroredNeverContributes ==
    \A k \in DOMAIN actions :
        \E ev \in EventsIn(decoded) :
            /\ ~ev.errorCode
            /\ OperationKey(ev) = k
            /\ ev.eventTime = actions[k]

\* errored records of the target, with the latest timestamp, were processed
C8_Witness ==
    /\ pc = "done"
    /\ identity = RoleIdentity
    /\ store[KeyA] = OkBody(<<"r3">>)
    /\ store[KeyB] = OkBody(<<"r1">>)
    /\ decoded = {KeyA, KeyB}
    /\ actions[Ec2Describe] = T1

\* the keys handed to the processing phase
Listed == {allKeys[i] : i \in 1..Len(allKeys)}

\* C9 (as claimed): absent listing errors, every object stored under the base
\* prefix is in the listed key set.
C9_ListingComplete ==
    (pc \in {"enqueue", "working", "done"} /\ ~listFailed) => DOMAIN store \subseteq Listed

\* the listed objects whose fetch, decompression and parse succeed
Good == {k \in Listed : store[k].status = "ok"}

\* C10: an object whose fetch, decompression or parse fails is counted as
\* processed and contributes nothing, the run completes, and the records of
\* every other object are reflected in the final ledger and secret set.
C10_BrokenObjectAbsorbed ==
    (pc = "done" /\ threads >= 1) =>
        /\ processed = total
        /\ total = Len(allKeys)
        /\ \A k \in DOMAIN actions :
              \E ev \in EventsIn(Good) :
                  ~Skipped(ev, identity) /\ OperationKey(ev) = k /\ ev.eventTime = actions[k]
        /\ \A s \in secrets :
              \E ev \in EventsIn(Good) :
                  ~Skipped(ev, identity) /\ IsSecretAccess(ev) /\ ev.secretId.val = s
        /\ \A ev \in EventsIn(Good) :
              ~Skipped(ev, identity) =>
                  /\ OperationKey(ev) \in DOMAIN actions
                  /\ ~LexLess(actions[OperationKey(ev)], ev.eventTime)
                  /\ IsSecretAccess(ev) => ev.secretId.val \in secrets

\* a corrupted gzip payload next to a valid object
C10_Witness ==
    /\ pc = "done"
    /\ threads = 2
    /\ identity = RoleIdentity
    /\ store[KeyA].status = "badgzip"
    /\ store[KeyB] = OkBody(<<"r1">>)
    /\ processed = 2
    /\ decoded = {KeyB}
    /\ actions[Ec2Describe] = T1

\* C11: for a pool of at least one worker the processing phase terminates: the
\* queue is closed only once every listed key is in it, the send of a key never
\* finds the queue full, a run that reached the queueing of the keys ends with
\* every worker out of its loop, and then processed equals the number of listed
\* keys.
C11_ProcessingTerminates ==
    /\ [](closed => ei > Len(allKeys) /\ Len(jobs) <= total)
    /\ []((pc = "enqueue" /\ ei <= Len(allKeys)) => ENABLED EnqueueJob)
    /\ []((pc = "done" /\ threads >= 1) =>
              /\ processed = Len(allKeys)
              /\ \A w \in DOMAIN wpc : wpc[w] = "exit")
    /\ (pc = "enqueue" /\ threads >= 1) ~>
           (pc = "done" /\ processed = total /\ \A w \in 1..threads : wpc[w] = "exit")

C11_Witness ==
    /\ pc = "done"
    /\ threads = 2
    /\ total = 2
    /\ closed
    /\ jobs = <<>>
    /\ processed = 2
    /\ \A w \in 1..2 : wpc[w] = "exit"

\* s is in strictly ascending byte order
Ascending(s) == \A i \in 1..(Len(s) - 1) : LexLess(s[i], s[i + 1])

C13_EmptyArchive ==
    (pc # "off" /\ DOMAIN store = {}) =>
        /\ pc = "failed" => di = 1 /\ lpc = <<>>
        /\ pc \notin {"done", "failed"} => ENABLED Next
        /\ actions = EmptyLedger /\ secrets = {}
        /\ pc = "done" =>
              /\ total = 0 /\ processed = 0
              /\ keysAct = <<>> /\ secOut = <<>>

C13_Witness ==
    /\ DOMAIN store = {}
    /\ pc = "done"
    /\ threads = 2
    /\ prefixes = <<Prefix>>
    /\ shardCount = 1
    /\ allKeys = <<>>
    /\ actions = EmptyLedger

\* the prefixes of the stored keys that end in "/" and lie at or under the base
\* prefix: the nodes of the prefix tree
TreeNodes ==
    UNION {{SubSeq(k, 1, i) : i \in {j \in Len(Prefix)..Len(k) : k[j] = "/"}} :
             k \in {x \in DOMAIN store : HasPrefix(x, Prefix)}}

\* the number of delimiter levels between the base prefix and node d
DepthOf(d) == SlashCount(d) - SlashCount(Prefix)

\* node d has a child prefix
HasChild(d) == \E e \in TreeNodes : HasPrefix(e, d) /\ DepthOf(e) = DepthOf(d) + 1

\* the leaves of the tree explored to the depth bound
LeafSet ==
    {d \in TreeNodes \cup {Prefix} :
       /\ DepthOf(d) <= Levels
       /\ DepthOf(d) = Levels \/ ~HasChild(d)}

\* C14 (as claimed): what getShardPrefixes returns holds every leaf of the
\* explored prefix tree, a childless prefix with siblings that have children
\* included.
C14_DiscoverReturnsLeaves ==
    pc = "shards" => LeafSet \subseteq {prefixes[i] : i \in 1..Len(prefixes)}

\* the number of positions of sequence s that hold k
CountIn(s, k) == Cardinality({i \in 1..Len(s) : s[i] = k})

\* the workers that hold key k: received, and process has not returned
Holders(k) == {w \in DOMAIN wpc : wpc[w] \notin {"recv", "exit"} /\ wkey[w] = k}

\* C15: each listed key is received from the queue by exactly one worker and
\* processed exactly once: a key is never in the hands of two workers, the
\* receives of a key are those that left the queue, each receive is followed by
\* one return of process, and when the workers have joined every listed key
\* was received once and processed once.
C15_ExactlyOnce ==
    pc \in {"working", "done"} =>
        \A k \in DOMAIN store :
            /\ CountIn(allKeys, k) <= 1
            /\ taken[k] = CountIn(allKeys, k) - CountIn(jobs, k)
            /\ Cardinality(Holders(k)) <= 1
            /\ handled[k] = taken[k] - Cardinality(Holders(k))
            /\ (pc = "done" /\ threads >= 1) =>
                  taken[k] = CountIn(allKeys, k) /\ handled[k] = CountIn(allKeys, k)

C15_Witness ==
    /\ pc = "done"
    /\ threads = 2
    /\ allKeys = <<KeyA, KeyB>>
    /\ taken = [k \in {KeyA, KeyB} |-> 1]
    /\ handled = [k \in {KeyA, KeyB} |-> 1]
    /\ wkey = <<KeyA, KeyB>>

\* the workers between mu.Lock() and mu.Unlock()
Inside == {w \in DOMAIN wpc : wpc[w] \in {"inActions", "inSecrets"}}

\* C16: at most one worker is inside an update of the ledger or the secret set;
\* a worker holds mu exactly while it is inside an update, so never while it
\* fetches, decompresses or parses; mu and the listing lock lm are never held
\* together; and every step that changes the ledger or the secret set is taken
\* by the holder of mu, which releases it in that step.
C16_LockDiscipline ==
    /\ [](Cardinality(Inside) <= 1)
    /\ [](\A w \in DOMAIN wpc : w \in Inside <=> mu = w)
    /\ [](mu # 0 => mu \in DOMAIN wpc)
    /\ [](~(mu # 0 /\ lm # 0))
    /\ [][(actions' # actions \/ secrets' # secrets) =>
              (mu \in Inside /\ mu' = 0 /\ wpc'[mu] \notin {"inActions", "inSecrets"})]_vars

C16_Witness ==
    /\ pc = "working"
    /\ mu = 1
    /\ wpc = <<"inActions", "lockActions">>
    /\ wkey = <<KeyA, KeyB>>

\* the run is past lwg.Wait()
PastListing == pc \in {"enqueue", "working", "done"}

\* C17: the phases do not overlap.  Past the wait for the listing goroutines
\* every one of them has finished, the listing lock is free and allKeys no
\* longer changes; no key is queued, received or fetched before that; the
\* output is computed only when every worker has left its loop, and from then
\* on the ledger and the secret set do not change.
C17_PhasesOrdered ==
    /\ [](PastListing => lm = 0 /\ \A i \in DOMAIN lpc : lpc[i] = "done")
    /\ [](~PastListing =>
              /\ jobs = <<>> /\ wpc = <<>> /\ decoded = {} /\ processed = 0
              /\ \A k \in DOMAIN taken : taken[k] = 0)
    /\ [](pc = "done" => mu = 0 /\ \A w \in DOMAIN wpc : wpc[w] = "exit")
    /\ [](pc # "done" => keysAct = <<>> /\ secOut = <<>>)
    /\ [][PastListing => allKeys' = allKeys /\ total' = total]_vars
    /\ [][pc = "done" => actions' = actions /\ secrets' = secrets]_vars

C17_Witness ==
    /\ pc = "working"
    /\ Len(lpc) = 2
    /\ shardCount = 2
    /\ Len(allKeys) = 2
    /\ threads = 2
    /\ wpc = <<"inActions", "fetch">>

\* the listing goroutines that have started and not returned
RunningListers == {i \in DOMAIN lpc : lpc[i] # "done"}

\* C18 (as claimed): for a width of at least one, the number of listing tasks
\* running at the same time never exceeds threads.
C18_ListingBounded ==
    (pc = "listing" /\ threads >= 1) => Cardinality(RunningListers) <= threads

\* the shard prefixes listKeysParallel queues
PoolShards ==
    LET cps == CommonPrefixes(DOMAIN store, Prefix)
    IN  {cps[i] : i \in 1..Len(cps)}

\* C19 (as claimed): in listKeysParallel with a pool of at least one worker,
\* every shard other than those whose paginator returned an error is listed
\* exhaustively: its keys are all in the returned set.
C19_ShardErrorIsolated ==
    (ppc = "returned" /\ threads >= 1) =>
        \A s \in PoolShards \ perr :
            \A k \in DOMAIN store :
                HasPrefix(k, s) => \E i \in 1..Len(pall) : pall[i] = k

\* the records of a body without those that do not parse
WellFormedOnly(recs) == SelectSeq(recs, LAMBDA id : Rec(id).wellFormed)

\* the objects of a queue processed in order by one worker alone, each body
\* taken without its malformed records
RECURSIVE FoldWellFormed(_, _)
FoldWellFormed(acc, keys) ==
    IF Len(keys) = 0 THEN acc
    ELSE FoldWellFormed(IF Decodes(store[Head(keys)])
                        THEN FoldRecords(acc, WellFormedOnly(store[Head(keys)].recs))
                        ELSE acc,
                        Tail(keys))

\* C20: a record that does not parse skips only itself: when the workers have
\* joined, the ledger and the secret set are those obtained from the same
\* objects with the malformed records removed, so every sibling record before
\* and after a malformed one is filtered and aggregated as usual.
C20_MalformedSkipsOnlyItself ==
    (pc = "done" /\ threads >= 1) =>
        LET clean == FoldWellFormed([ledger |-> EmptyLedger, secrets |-> {}], allKeys)
        IN  actions = clean.ledger /\ secrets = clean.secrets

C20_Witness ==
    /\ pc = "done"
    /\ threads = 1
    /\ identity = RoleIdentity
    /\ store[KeyA] = OkBody(<<"r5", "r1">>)
    /\ store[KeyB] = OkBody(<<>>)
    /\ decoded = {KeyA, KeyB}
    /\ actions[Ec2Describe] = T1


\* C21: once a listing call of shard discovery has returned an error the run is
\* in its failed state, from that very step on: no listing goroutine and no
\* processing worker exists, nothing has been listed, queued or processed, and
\* neither the ledger nor the secret list has been output.
C21_DiscoveryErrorIsFatal ==
    discoverErr =>
        /\ pc = "failed"
        /\ lpc = <<>> /\ allKeys = <<>> /\ shardCount = 0
        /\ jobs = <<>> /\ ~closed
        /\ wpc = <<>> /\ processed = 0
        /\ actions = EmptyLedger /\ secrets = {}
        /\ keysAct = <<>> /\ secOut = <<>>
        /\ ~ENABLED Next

\* the second level of discovery fails on its second prefix, after the first
\* one has answered with a child prefix
C21_Witness ==
    /\ discoverErr
    /\ pc = "failed"
    /\ lvl = 1 /\ di = 2
    /\ Len(prefixes) = 2 /\ Len(next) = 1

\* C22: no step of a run removes an operation from the ledger, replaces the
\* timestamp stored for an operation by a lexically smaller one, or removes an
\* identifier from the secret set.
C22_ResultsOnlyGrow ==
    [][/\ DOMAIN actions \subseteq DOMAIN actions'
       /\ \A k \in DOMAIN actions : ~LexLess(actions'[k], actions[k])
       /\ secrets \subseteq secrets']_vars

\* one object holds the later call before the earlier one of the same operation:
\* both were processed and the ledger still holds the later time
C22_Witness ==
    /\ pc = "done"
    /\ identity = RoleIdentity
    /\ store[KeyA] = OkBody(<<"r2", "r1">>)
    /\ store[KeyB] = OkBody(<<>>)
    /\ decoded = {KeyA, KeyB}
    /\ processed = 2
    /\ actions[Ec2Describe] = T2


\* C23: with a width of 0 or less no worker is ever started, so no key is taken
\* from the queue, processed stays 0 and the ledger and the secret set stay
\* empty; once the queue is closed it keeps every listed key; and a run that
\* reached the queueing of the keys ends with the output of an empty ledger and
\* an empty secret list.
C23_NoWorkerForNonPositiveWidth ==
    /\ [](threads <= 0 =>
             /\ wpc = <<>>
             /\ \A k \in DOMAIN taken : taken[k] = 0
             /\ processed = 0 /\ decoded = {}
             /\ actions = EmptyLedger /\ secrets = {}
             /\ keysAct = <<>> /\ secOut = <<>>
             /\ pc \in {"working", "done"} =>
                   closed /\ total = Len(allKeys) /\ jobs = allKeys
             /\ pc = "working" => ENABLED Output)
    /\ (threads <= 0 /\ pc = "enqueue") ~>
           (pc = "done" /\ processed = 0 /\ Len(jobs) = total)

\* a negative width: both objects hold a secret retrieval of the target, both
\* were listed and queued, and the run ended with nothing processed
C23_Witness ==
    /\ threads = -1
    /\ pc = "done"
    /\ identity = BobArn
    /\ store[KeyA] = OkBody(<<"r4">>)
    /\ store[KeyB] = OkBody(<<"r4">>)
    /\ total = 2 /\ Len(jobs) = 2
    /\ processed = 0
    /\ actions = EmptyLedger /\ secrets = {}
====
